---- MODULE Spec2Model ----
(***************************************************************************)
(* Model of ratelimit.decorators.RateLimitDecorator                        *)
(* (src/ratelimit/decorators.py).                                          *)
(*                                                                         *)
(* Numbers.  The injected clock returns whole ticks and `duration` is a    *)
(* whole number of ticks, a power of two: every float division by          *)
(* duration in the code is then exact.  The token count self.burst is a    *)
(* float in the code; every value it takes is a multiple of 1/duration,    *)
(* so the variable `burst` holds self.burst * duration, an integer:        *)
(*     self.burst += elapsed * 1 / duration   is   burst + elapsed         *)
(*     self.burst > self.burst_max            is   burst > burst_max * d   *)
(*     int(self.burst)                        is   IntOf(burst)         *)
(*     self.burst >= 1                        is   burst >= d              *)
(*     self.burst - 1                         is   burst - d               *)
(*                                                                         *)
(* log records every completed call of wrapper, in completion order:       *)
(* kind ("admitted" or "raised"), start (the clock read at line 97), at    *)
(* (the clock when the call left the critical section; for an admitted     *)
(* call the value written to last_reset), retry (the value carried by      *)
(* RateLimitException) and slept (the call went through time.sleep).       *)
(***************************************************************************)
EXTENDS Integers, Sequences, FiniteSets

\* ------------------------------------------------------------------ bounds
NThreads == 2
MaxCalls == 3
MaxTime == 3
MaxDurationExp == 1
MaxBurst == 2

Threads == 1..NThreads
NoThread == 0

VARIABLES
    duration,           \* self.duration (ticks)
    sleep,              \* self.sleep
    raise_on_limit,     \* self.raise_on_limit
    burst_max,          \* self.burst_max (tokens)
    burst,              \* self.burst * duration
    last_reset,         \* self.last_reset
    lock,               \* owner of self.lock, NoThread when free
    clock,              \* the value self.clock() returns now
    pc,                 \* per thread: position in wrapper
    period_remaining,   \* per thread: the local period_remaining
    exc,                \* per thread: period_remaining carried by the raised RateLimitException
    log,                \* history of completed wrapper calls
    runs                \* number of times func has been run (line 86)

vars == <<duration, sleep, raise_on_limit, burst_max, burst, last_reset,
          lock, clock, pc, period_remaining, exc, log, runs>>

config == <<duration, sleep, raise_on_limit, burst_max>>

\* ------------------------------------------------------- pure computations

\* __period_remaining, lines 97-98
PeriodRemaining == duration - (clock - last_reset)

\* int(self.burst): truncation toward zero of b / duration
IntOf(b) == IF b >= 0 THEN b \div duration ELSE -((-b) \div duration)

\* line 74: self.burst += (self.clock() - self.last_reset) * 1 / self.duration
Replenished(b) == b + (clock - last_reset)

\* variant of Capped without the cap of line 75
CappedNever(b) == b

\* line 75: cap to burst_max
Capped(b) == IF b > burst_max * duration THEN burst_max * duration ELSE b

\* variant of OverLimit testing self.burst < 1 instead of int(self.burst) == 0
OverLimitBelowOne(pr, b) == pr > 0 /\ b < duration

\* line 77: period_remaining > 0 and int(self.burst) == 0
OverLimit(pr, b) == pr > 0 /\ IntOf(b) = 0

\* variant of Decremented without the clamp at 0
DecrementedUnclamped(b) == b - duration

\* line 83: self.burst - 1 if self.burst >= 1 else 0
Decremented(b) == IF b >= duration THEN b - duration ELSE 0

\* line 84: the value written to self.last_reset
ResetValue == clock

\* the clock value the running call of the lock holder read at line 97
\* (last_reset does not change while the lock is held)
StartOf(t) == last_reset + duration - period_remaining[t]

\* ------------------------------------------------------------------- Init

\* __init__, lines 34-46; the clock starts at 0 and never decreases
InitCfg(ds, bs) ==
    /\ duration \in ds
    /\ sleep \in BOOLEAN
    /\ raise_on_limit \in BOOLEAN
    /\ burst_max \in bs
    /\ burst = burst_max * duration
    /\ last_reset = duration
    /\ lock = NoThread
    /\ clock = 0
    /\ pc = [t \in Threads |-> "idle"]
    /\ period_remaining = [t \in Threads |-> 0]
    /\ exc = [t \in Threads |-> 0]
    /\ log = <<>>
    /\ runs = 0

Durations == {2 ^ k : k \in 0..MaxDurationExp}
Bursts == 1..MaxBurst

Init == InitCfg(Durations, Bursts)

\* __init__ checks none of its arguments: any burst is accepted
\* (0 stands for the values the documentation excludes)
AnyBursts == 0..MaxBurst

InitAnyConfig == InitCfg(Durations, AnyBursts)

\* ---------------------------------------------------------------- actions

\* positions: "idle" before the first call, "l70" waiting for the lock,
\* "l71".."l84" inside the with block ("l79" in time.sleep; "l83s", "l84s" are
\* lines 83, 84 of a call that slept), "l86" admitted and about to run func,
\* "returned" and "raised" after the call
Resting == {"idle", "returned", "raised"}
Reading == {"l71", "l74", "l77", "l83", "l83s", "l84", "l84s"}
Deciding == {"l70", "l79"} \cup Reading

\* calls that have entered wrapper and not yet left the with block
InFlight == Cardinality({t \in Threads : pc[t] \in Deciding})

\* a thread calls the wrapped function (line 58)
Invoke(t) ==
    /\ pc[t] \in Resting
    /\ Len(log) + InFlight < MaxCalls
    /\ pc' = [pc EXCEPT ![t] = "l70"]
    /\ exc' = [exc EXCEPT ![t] = 0]
    /\ UNCHANGED <<config, runs, burst, last_reset, lock, clock, period_remaining, log>>

\* variant of Acquire that enters without waiting for the lock
AcquireUnguarded(t) ==
    /\ pc[t] = "l70"
    /\ lock' = t
    /\ pc' = [pc EXCEPT ![t] = "l71"]
    /\ UNCHANGED <<config, runs, burst, last_reset, clock, period_remaining, exc, log>>

\* line 70: with self.lock (enter)
Acquire(t) ==
    /\ pc[t] = "l70"
    /\ lock = NoThread
    /\ lock' = t
    /\ pc' = [pc EXCEPT ![t] = "l71"]
    /\ UNCHANGED <<config, runs, burst, last_reset, clock, period_remaining, exc, log>>

\* line 71: period_remaining = self.__period_remaining()
ReadPeriod(t) ==
    /\ pc[t] = "l71"
    /\ period_remaining' = [period_remaining EXCEPT ![t] = PeriodRemaining]
    /\ pc' = [pc EXCEPT ![t] = "l74"]
    /\ UNCHANGED <<config, runs, burst, last_reset, lock, clock, exc, log>>

\* lines 74-75: replenish and cap
Replenish(t) ==
    /\ pc[t] = "l74"
    /\ burst' = Capped(Replenished(burst))
    /\ pc' = [pc EXCEPT ![t] = "l77"]
    /\ UNCHANGED <<config, runs, last_reset, lock, clock, period_remaining, exc, log>>

\* lines 77-81, over the limit and self.sleep: time.sleep starts (lock kept)
DecideSleep(t) ==
    /\ pc[t] = "l77"
    /\ OverLimit(period_remaining[t], burst)
    /\ sleep
    /\ pc' = [pc EXCEPT ![t] = "l79"]
    /\ UNCHANGED <<config, runs, burst, last_reset, lock, clock, period_remaining, exc, log>>

\* variant of DecideRaise testing raise_on_limit before sleep
DecideRaiseBeforeSleep(t) ==
    /\ pc[t] = "l77"
    /\ OverLimit(period_remaining[t], burst)
    /\ raise_on_limit
    /\ pc' = [pc EXCEPT ![t] = "raised"]
    /\ exc' = [exc EXCEPT ![t] = period_remaining[t]]
    /\ lock' = NoThread
    /\ log' = Append(log, [kind |-> "raised", start |-> StartOf(t),
                           at |-> clock, retry |-> period_remaining[t],
                           slept |-> FALSE])
    /\ period_remaining' = [period_remaining EXCEPT ![t] = 0]
    /\ UNCHANGED <<config, runs, burst, last_reset, clock>>

\* variant of DecideRaise whose exception carries the elapsed time
\* (duration - period_remaining) instead of the remaining time
DecideRaiseCarriesElapsed(t) ==
    /\ pc[t] = "l77"
    /\ OverLimit(period_remaining[t], burst)
    /\ ~sleep
    /\ raise_on_limit
    /\ pc' = [pc EXCEPT ![t] = "raised"]
    /\ exc' = [exc EXCEPT ![t] = duration - period_remaining[t]]
    /\ lock' = NoThread
    /\ log' = Append(log, [kind |-> "raised", start |-> StartOf(t),
                           at |-> clock, retry |-> duration - period_remaining[t],
                           slept |-> FALSE])
    /\ period_remaining' = [period_remaining EXCEPT ![t] = 0]
    /\ UNCHANGED <<config, runs, burst, last_reset, clock>>

\* variant of DecideRaise that consumes a token (line 83) before raising
DecideRaiseConsumes(t) ==
    /\ pc[t] = "l77"
    /\ OverLimit(period_remaining[t], burst)
    /\ ~sleep
    /\ raise_on_limit
    /\ pc' = [pc EXCEPT ![t] = "raised"]
    /\ exc' = [exc EXCEPT ![t] = period_remaining[t]]
    /\ lock' = NoThread
    /\ log' = Append(log, [kind |-> "raised", start |-> StartOf(t),
                           at |-> clock, retry |-> period_remaining[t],
                           slept |-> FALSE])
    /\ period_remaining' = [period_remaining EXCEPT ![t] = 0]
    /\ burst' = Decremented(burst)
    /\ UNCHANGED <<config, runs, last_reset, clock>>

\* variant of DecideRaise that resets last_reset (line 84) before raising
DecideRaiseResets(t) ==
    /\ pc[t] = "l77"
    /\ OverLimit(period_remaining[t], burst)
    /\ ~sleep
    /\ raise_on_limit
    /\ pc' = [pc EXCEPT ![t] = "raised"]
    /\ exc' = [exc EXCEPT ![t] = period_remaining[t]]
    /\ lock' = NoThread
    /\ log' = Append(log, [kind |-> "raised", start |-> StartOf(t),
                           at |-> clock, retry |-> period_remaining[t],
                           slept |-> FALSE])
    /\ period_remaining' = [period_remaining EXCEPT ![t] = 0]
    /\ last_reset' = clock
    /\ UNCHANGED <<config, runs, burst, clock>>

\* variant of DecideRaise whose exception leaves the lock held
DecideRaiseKeepsLock(t) ==
    /\ pc[t] = "l77"
    /\ OverLimit(period_remaining[t], burst)
    /\ ~sleep
    /\ raise_on_limit
    /\ pc' = [pc EXCEPT ![t] = "raised"]
    /\ exc' = [exc EXCEPT ![t] = period_remaining[t]]
    /\ log' = Append(log, [kind |-> "raised", start |-> StartOf(t),
                           at |-> clock, retry |-> period_remaining[t],
                           slept |-> FALSE])
    /\ period_remaining' = [period_remaining EXCEPT ![t] = 0]
    /\ UNCHANGED <<config, runs, burst, last_reset, clock, lock>>

\* lines 77-81, over the limit, not self.sleep, self.raise_on_limit:
\* RateLimitException leaves the with block, which releases the lock
DecideRaise(t) ==
    /\ pc[t] = "l77"
    /\ OverLimit(period_remaining[t], burst)
    /\ ~sleep
    /\ raise_on_limit
    /\ pc' = [pc EXCEPT ![t] = "raised"]
    /\ exc' = [exc EXCEPT ![t] = period_remaining[t]]
    /\ lock' = NoThread
    /\ log' = Append(log, [kind |-> "raised", start |-> StartOf(t),
                           at |-> clock, retry |-> period_remaining[t],
                           slept |-> FALSE])
    /\ period_remaining' = [period_remaining EXCEPT ![t] = 0]
    /\ UNCHANGED <<config, runs, burst, last_reset, clock>>

\* lines 77-81, not over the limit, or neither sleep nor raise_on_limit
DecidePass(t) ==
    /\ pc[t] = "l77"
    /\ \/ ~OverLimit(period_remaining[t], burst)
       \/ ~sleep /\ ~raise_on_limit
    /\ pc' = [pc EXCEPT ![t] = "l83"]
    /\ UNCHANGED <<config, runs, burst, last_reset, lock, clock, period_remaining, exc, log>>

\* line 79: time.sleep(period_remaining) returns
Wake(t) ==
    /\ pc[t] = "l79"
    /\ pc' = [pc EXCEPT ![t] = "l83s"]
    /\ UNCHANGED <<config, runs, burst, last_reset, lock, clock, period_remaining, exc, log>>

\* line 83: decrement one call from burst
Decrement(t) ==
    /\ pc[t] \in {"l83", "l83s"}
    /\ burst' = Decremented(burst)
    /\ pc' = [pc EXCEPT ![t] = IF pc[t] = "l83s" THEN "l84s" ELSE "l84"]
    /\ UNCHANGED <<config, runs, last_reset, lock, clock, period_remaining, exc, log>>

\* line 84, and the end of the with block: the lock is released
Reset(t) ==
    /\ pc[t] \in {"l84", "l84s"}
    /\ last_reset' = ResetValue
    /\ lock' = NoThread
    /\ pc' = [pc EXCEPT ![t] = "l86"]
    /\ log' = Append(log, [kind |-> "admitted", start |-> StartOf(t),
                           at |-> ResetValue, retry |-> 0,
                           slept |-> (pc[t] = "l84s")])
    /\ period_remaining' = [period_remaining EXCEPT ![t] = 0]
    /\ UNCHANGED <<config, runs, burst, clock, exc>>

\* variant of RunFunc that runs func twice
RunFuncTwice(t) ==
    /\ pc[t] = "l86"
    /\ runs' = runs + 2
    /\ pc' = [pc EXCEPT ![t] = "returned"]
    /\ UNCHANGED <<config, burst, last_reset, lock, clock, period_remaining, exc, log>>

\* line 86: return func(*args, **kargs)
RunFunc(t) ==
    /\ pc[t] = "l86"
    /\ runs' = runs + 1
    /\ pc' = [pc EXCEPT ![t] = "returned"]
    /\ UNCHANGED <<config, burst, last_reset, lock, clock, period_remaining, exc, log>>

\* The injected clock advances (it never goes back), at any moment: the
\* three reads of one call (lines 97, 74 and 84) may return three values.
Tick ==
    /\ clock < MaxTime
    /\ clock' = clock + 1
    /\ UNCHANGED <<config, runs, burst, last_reset, lock, pc, period_remaining, exc, log>>

Step(t) ==
    \/ Invoke(t)
    \/ Acquire(t)
    \/ ReadPeriod(t)
    \/ Replenish(t)
    \/ DecideSleep(t)
    \/ DecideRaise(t)
    \/ DecidePass(t)
    \/ Wake(t)
    \/ Decrement(t)
    \/ Reset(t)
    \/ RunFunc(t)

Next == Tick \/ \E t \in Threads : Step(t)

Spec == Init /\ [][Next]_vars

\* the limiter constructed with any burst __init__ accepts
SpecAnyConfig == InitAnyConfig /\ [][Next]_vars

\* Scheduling assumed for termination claims: a thread inside wrapper keeps
\* running (time.sleep returns), and a thread waiting at line 70 that finds
\* the lock free again and again is eventually granted it.
Proceed(t) ==
    \/ ReadPeriod(t)
    \/ Replenish(t)
    \/ DecideSleep(t)
    \/ DecideRaise(t)
    \/ DecidePass(t)
    \/ Wake(t)
    \/ Decrement(t)
    \/ Reset(t)
    \/ RunFunc(t)

FairSpec ==
    /\ Init
    /\ [][Next]_vars
    /\ \A t \in Threads : WF_vars(Proceed(t)) /\ SF_vars(Acquire(t))

\* ================================================================= claims

Calls == 1..Len(log)
RaiseMode == raise_on_limit /\ ~sleep
PassMode == ~raise_on_limit /\ ~sleep
Times == 0..MaxTime

\* number of calls admitted at clock times in [t0, t1]
AdmittedIn(t0, t1) ==
    Cardinality({i \in Calls : log[i].kind = "admitted" /\ log[i].at \in t0..t1})

\* C1: in raise mode the number of calls admitted at clock times in [t0, t1]
\* is at most burst_max + (t1 - t0) / duration, for all t0 <= t1.
C1_RateBound ==
    RaiseMode =>
        \A t0, t1 \in Times :
            t0 <= t1 =>
                duration * AdmittedIn(t0, t1) <= duration * burst_max + (t1 - t0)

\* C2: burst_max = 1, duration = 1, raise mode, clock frozen at 0: the first
\* call is admitted and the second raises RateLimitException carrying 1.
C2_FrozenAtZero ==
    (RaiseMode /\ burst_max = 1 /\ duration = 1 /\ clock = 0) =>
        /\ Len(log) >= 1 => log[1].kind = "admitted"
        /\ Len(log) >= 2 => log[2].kind = "raised" /\ log[2].retry = 1

\* C3: in raise mode, when every call starts at least `duration` after the
\* previous call, every call (the first included) is admitted.
C3_SpacedCallsAdmitted ==
    (RaiseMode /\ \A i \in Calls : i >= 2 => log[i].start >= log[i - 1].at + duration) =>
        \A i \in Calls : log[i].kind = "admitted"

\* C4: burst_max = 1, raise mode, frozen clock, every thread has called once:
\* exactly one thread was admitted and the others raised.
C4_OneAdmittedOfN ==
    (/\ RaiseMode
     /\ burst_max = 1
     /\ Len(log) = NThreads
     /\ \A t \in Threads : pc[t] \in {"l86", "returned", "raised"}
     /\ \A i \in Calls : log[i].start = clock /\ log[i].at = clock) =>
        /\ Cardinality({t \in Threads : pc[t] \in {"l86", "returned"}}) = 1
        /\ Cardinality({t \in Threads : pc[t] = "raised"}) = NThreads - 1

\* C5: with sleep = TRUE no call ever raises RateLimitException, and every
\* call that entered wrapper is eventually admitted (reaches line 86).
C5_SleepAlwaysAdmits ==
    /\ [](sleep => \A t \in Threads : pc[t] # "raised")
    /\ \A t \in Threads : (sleep /\ pc[t] = "l70") ~> (pc[t] = "l86")

\* a call that was over the limit slept and was admitted
C5_Witness ==
    sleep /\ \E i \in Calls : log[i].kind = "admitted" /\ log[i].slept

\* C6: with raise_on_limit = FALSE and sleep = FALSE a call goes from the
\* decision of line 77 straight to the admission update, never raises and
\* never sleeps; the update is burst = max(0, burst - 1), last_reset = clock().
C6_PassThrough ==
    [][PassMode =>
        \A t \in Threads :
            /\ pc'[t] \notin {"raised", "l79", "l83s", "l84s"}
            /\ (pc[t] = "l77" /\ pc'[t] # "l77") => pc'[t] = "l83"
            /\ (pc[t] = "l83" /\ pc'[t] # "l83") =>
                   /\ pc'[t] = "l84"
                   /\ burst' = (IF burst - duration > 0 THEN burst - duration ELSE 0)
            /\ (pc[t] = "l84" /\ pc'[t] # "l84") =>
                   /\ pc'[t] = "l86"
                   /\ last_reset' = clock
                   /\ log'[Len(log')].kind = "admitted"
    ]_vars

\* an over-budget call was passed through to the admission update
C6_Witness ==
    PassMode /\ \E t \in Threads :
        pc[t] = "l83" /\ period_remaining[t] > 0 /\ burst < duration

\* C7: a call raises RateLimitException exactly when, at its decision,
\* period_remaining > 0, the whole-token count of burst is 0, sleep is FALSE
\* and raise_on_limit is TRUE; the value carried is its period_remaining, > 0.
C7_RaiseIff ==
    [][\A t \in Threads :
        /\ (pc[t] = "l77" /\ pc'[t] # "l77") =>
              /\ (pc'[t] = "raised") <=>
                     /\ period_remaining[t] > 0
                     /\ -duration < burst /\ burst < duration
                     /\ ~sleep
                     /\ raise_on_limit
              /\ pc'[t] = "raised" =>
                     /\ exc'[t] = period_remaining[t]
                     /\ exc'[t] > 0
                     /\ log'[Len(log')].retry = period_remaining[t]
        /\ (pc[t] # "l77" /\ pc[t] # "raised") => pc'[t] # "raised"
    ]_vars

\* a call has raised RateLimitException
C7_Witness == \E t \in Threads : pc[t] = "raised" /\ exc[t] > 0

\* C8: after a call raised with retry r at clock time t, the next call that
\* starts at a clock time >= t + r, with only raised calls in between, is
\* admitted.
C8_Recoverable ==
    \A i, j \in Calls :
        (/\ i < j
         /\ log[i].kind = "raised"
         /\ \A k \in Calls : (i < k /\ k < j) => log[k].kind = "raised"
         /\ log[j].start >= log[i].start + log[i].retry) =>
            log[j].kind = "admitted"

\* a raised call was followed by a call at or after start + retry
C8_Witness ==
    \E i, j \in Calls :
        /\ i < j
        /\ log[i].kind = "raised"
        /\ \A k \in Calls : (i < k /\ k < j) => log[k].kind = "raised"
        /\ log[j].start >= log[i].start + log[i].retry
        /\ log[j].kind = "admitted"

\* C9: whenever no call is inside the critical section, burst <= burst_max.
C9_BurstUpperBound == lock = NoThread => burst <= burst_max * duration

\* a call that came two windows or more after the previous one has completed
C9_Witness ==
    /\ lock = NoThread
    /\ Len(log) >= 2
    /\ log[Len(log)].kind = "admitted"
    /\ log[Len(log)].start >= log[Len(log) - 1].at + 2 * duration
    /\ burst = (burst_max - 1) * duration

\* C10: whenever no call is inside the critical section, burst >= 0.
C10_BurstLowerBound == lock = NoThread => burst >= 0

\* positions at which a thread is inside the with block of line 70
Inside == Reading \cup {"l79"}

AdmittedCalls == {i \in Calls : log[i].kind = "admitted"}
RaisedCalls == {i \in Calls : log[i].kind = "raised"}
LastOf(S) == CHOOSE i \in S : \A j \in S : j <= i

\* C11: while one thread is in time.sleep (line 79), another thread waiting
\* at line 70 can acquire the lock.
C11_SleepBlocksOnlyCaller ==
    \A s, t \in Threads :
        (pc[s] = "l79" /\ pc[t] = "l70") => ENABLED Acquire(t)

\* C12: a limiter whose duration or burst_max is <= 0 never reaches a guarded
\* call (its construction fails).
C12_ValidatedAtConstruction ==
    (duration <= 0 \/ burst_max <= 0) => \A t \in Threads : pc[t] = "idle"

\* C13: func has run once for every admitted call whose thread has passed
\* line 86 and never for a raised call, and a thread about to run func has
\* already left the critical section with its admission recorded.
C13_WorkOncePerAdmission ==
    /\ runs + Cardinality({t \in Threads : pc[t] = "l86"}) = Cardinality(AdmittedCalls)
    /\ \A t \in Threads : pc[t] = "l86" => (lock # t /\ AdmittedCalls # {})
    /\ (\A t \in Threads : pc[t] \in Resting) => runs = Len(log) - Cardinality(RaisedCalls)

\* func has run and another call has raised
C13_Witness == runs >= 1 /\ RaisedCalls # {} /\ \E t \in Threads : pc[t] = "returned"

\* C14: a call that raises leaves last_reset unchanged and consumes no token:
\* its only change is the replenishment burst = min(burst_max, burst +
\* elapsed / duration) of lines 74-75.
C14_DeniedCallFrame ==
    [][\A t \in Threads :
        /\ (pc[t] = "l71" /\ pc'[t] # "l71") =>
               (pc'[t] = "l74" /\ burst' = burst /\ last_reset' = last_reset)
        /\ (pc[t] = "l74" /\ pc'[t] # "l74") =>
               /\ pc'[t] = "l77"
               /\ last_reset' = last_reset
               /\ burst' = (IF burst + (clock - last_reset) < burst_max * duration
                            THEN burst + (clock - last_reset)
                            ELSE burst_max * duration)
        /\ (pc[t] = "l77" /\ pc'[t] = "raised") =>
               (burst' = burst /\ last_reset' = last_reset)
    ]_vars

\* a call raised after a replenishment that added tokens
C14_Witness ==
    /\ Len(log) >= 1
    /\ log[Len(log)].kind = "raised"
    /\ log[Len(log)].start > last_reset
    /\ burst > 0

\* C15: a call that slept is admitted only when the decision recomputed after
\* the sleep is not over budget: period_remaining <= 0 or at least one whole
\* token.
C15_SleptCallRechecked ==
    \A t \in Threads :
        pc[t] = "l83s" =>
            (PeriodRemaining <= 0 \/ Capped(Replenished(burst)) >= duration)

\* C16: a thread inside the critical section holds the lock (so at most one
\* is inside), and burst and last_reset change only by a step of the lock
\* holder inside it.
C16_MutualExclusion ==
    [][/\ \A t \in Threads : pc'[t] \in Inside => lock' = t
       /\ Cardinality({t \in Threads : pc'[t] \in Inside}) <= 1
       /\ (burst' # burst \/ last_reset' # last_reset) =>
              /\ lock # NoThread
              /\ pc[lock] \in Inside
              /\ pc'[lock] # pc[lock]
              /\ \A t \in Threads : t # lock => pc'[t] = pc[t]
    ]_vars

\* one thread is inside the critical section while another waits at line 70
C16_Witness ==
    \E s, t \in Threads : s # t /\ pc[s] \in Inside /\ pc[t] = "l70"

\* C17: a thread that is not inside the with block does not hold the lock;
\* when no thread is inside, the lock is free and a waiting thread can take it.
C17_LockReleased ==
    /\ \A t \in Threads : pc[t] \notin Inside => lock # t
    /\ (\A s \in Threads : pc[s] \notin Inside) =>
           /\ lock = NoThread
           /\ \A t \in Threads : pc[t] = "l70" => ENABLED Acquire(t)

\* after one thread's call raised, another thread holds the lock
C17_Witness ==
    \E s, t \in Threads : s # t /\ pc[s] = "raised" /\ lock = t

\* C18: the values admitted calls write to last_reset are non-decreasing, and
\* last_reset is the value written by the latest admitted call (raised calls
\* do not change it).
C18_LastResetMonotone ==
    /\ \A i, j \in AdmittedCalls : i < j => log[i].at <= log[j].at
    /\ last_reset = (IF AdmittedCalls = {} THEN duration
                     ELSE log[LastOf(AdmittedCalls)].at)

\* two admitted calls at different clock times with a raised call in between
C18_Witness ==
    \E i, j \in AdmittedCalls : \E k \in RaisedCalls :
        i < k /\ k < j /\ log[i].at < log[j].at

\* C19: at the replenish step the elapsed time clock() - last_reset is >= 0
\* and the replenished burst is >= the burst before the call.
C19_ReplenishNeverRemoves ==
    \A t \in Threads :
        pc[t] = "l74" =>
            /\ clock - last_reset >= 0
            /\ Capped(Replenished(burst)) >= burst

\* C20: every RateLimitException carries 0 < period_remaining <= duration.
C20_RetryAtMostDuration ==
    \A i \in RaisedCalls : 0 < log[i].retry /\ log[i].retry <= duration

====
